---- MODULE Spec2Model ----
(***************************************************************************)
(* A model of checkings/number_line.py: Bound, Range and NumberLine.       *)
(*                                                                         *)
(* Floats are modelled as integers.  Finite bound values lie on the even   *)
(* grid 0, 2, .., 2*MaxPoint; membership is sampled on every integer from  *)
(* -1 to 2*MaxPoint+1, so that each open interval between two grid points  *)
(* has a sampled interior point and each grid point is sampled itself.     *)
(* float("inf") and float("-inf") are the integers Inf and MinusInf, which *)
(* lie outside every sampled value.                                        *)
(***************************************************************************)
EXTENDS Integers, Sequences, FiniteSets

VARIABLES pc,         \* which statement of the driving script ran last
          args,       \* the arguments the script passes to the constructors
          a, b,       \* two Bound objects
          cmp,        \* the results of comparing a with b
          range1, range2,   \* two Range objects
          new_range,  \* the result of range1 + range2 or range1 - range2
          ranges,     \* NumberLine.ranges of the line being simplified
          x, y,       \* NumberLine.ranges of two lines x and y
          n,          \* NumberLine.ranges of the line x was before ~x
          hist,       \* the operations applied to x so far
          truth,      \* what bool(x) returned (FALSE until it is called)
          raised      \* the exception the last call raised, or "none"

vars == <<pc, args, a, b, cmp, range1, range2, new_range, ranges, x, y, n,
          hist, truth, raised>>

MaxPoint == 2

Inf == 99
MinusInf == -99

None == "None"

FiniteValues == {2 * k : k \in 0..MaxPoint}
Values == FiniteValues \cup {MinusInf, Inf}
FiniteSamples == (0 - 1)..(2 * MaxPoint + 1)
Samples == FiniteSamples \cup {MinusInf, Inf}

(***************************************************************************)
(* class Bound                                                             *)
(***************************************************************************)
Bound(value, inclusive) ==
    [value |-> value,
     inclusive |-> IF value = Inf \/ value = MinusInf THEN TRUE ELSE inclusive]

Infinity == Bound(Inf, TRUE)
MinusInfinity == Bound(MinusInf, TRUE)

not_comparable(self, other) ==
    self.value = other.value /\ self.inclusive # other.inclusive

Bound_eq(self, other) ==
    (self.value = other.value) /\ (self.inclusive = other.inclusive)

Bound_eq_number(self, other) == self.inclusive /\ self.value = other

Bound_lt_or_same(self, other) == self.value <= other.value

Bound_lt(self, other) == self.value < other.value

Bound_gt(self, other) == self.value > other.value

Bound_le(self, other) == self.value < other.value \/ Bound_eq(self, other)

Bound_le_number(self, other) ==
    self.value < other \/ Bound_eq_number(self, other)

Bound_ge(self, other) == self.value > other.value \/ Bound_eq(self, other)

Bound_ge_number(self, other) ==
    self.value > other \/ Bound_eq_number(self, other)

smaller_or_eq(self, other) == Bound_le(self, other)

bigger_or_eq_strict(self, other) == Bound_gt(self, other)

bigger_or_eq(self, other) == Bound_ge(self, other)

(***************************************************************************)
(* class Range                                                             *)
(***************************************************************************)
MkRange(lower, upper) == [lower |-> lower, upper |-> upper]

\* Range.__init__: whether the _check of the constructor lets the pair pass
Range_check(lower, upper) == smaller_or_eq(lower, upper)

EmptyRange == MkRange(Infinity, MinusInfinity)
FullRange == MkRange(MinusInfinity, Infinity)

Range_contains(self, item) ==
    Bound_le_number(self.lower, item) /\ Bound_ge_number(self.upper, item)

Range_bool(self) == Bound_le(self.lower, self.upper)

Range_eq(self, other) ==
    Bound_eq(self.lower, other.lower) /\ Bound_eq(self.upper, other.upper)

\* the test of Range.__add__ that returns both operands unchanged
Range_add_disjoint(self, other) ==
    \/ self.lower.value > other.upper.value
    \/ self.upper.value < other.lower.value
    \/ /\ self.lower.value = other.upper.value
       /\ ~self.lower.inclusive
       /\ ~other.upper.inclusive

Range_add_lower_bound(self, other) ==
    IF self.lower.value < other.lower.value THEN self.lower
    ELSE IF self.lower.value > other.lower.value THEN other.lower
    ELSE Bound(self.lower.value, self.lower.inclusive \/ other.lower.inclusive)

Range_add_upper_bound_and(self, other) ==
    IF self.upper.value > other.upper.value THEN self.upper
    ELSE IF self.upper.value < other.upper.value THEN other.upper
    ELSE Bound(self.upper.value, self.upper.inclusive /\ other.upper.inclusive)

Range_add_upper_bound(self, other) ==
    IF self.upper.value > other.upper.value THEN self.upper
    ELSE IF self.upper.value < other.upper.value THEN other.upper
    ELSE Bound(self.upper.value, self.upper.inclusive \/ other.upper.inclusive)

\* Range.__add__: the returned tuple, or the ValueError of Range()
Range_add(self, other) ==
    IF Range_add_disjoint(self, other)
    THEN [raised |-> "none", value |-> <<self, other>>]
    ELSE LET lower_bound == Range_add_lower_bound(self, other)
             upper_bound == Range_add_upper_bound(self, other)
         IN  IF Range_check(lower_bound, upper_bound)
             THEN [raised |-> "none",
                   value |-> <<MkRange(lower_bound, upper_bound)>>]
             ELSE [raised |-> "ValueError", value |-> <<>>]

\* Range(lower, upper) for every piece of a tuple, _check on
Range_tuple(pieces) ==
    IF \A i \in 1..Len(pieces) : Range_check(pieces[i][1], pieces[i][2])
    THEN [raised |-> "none",
          value |-> [i \in 1..Len(pieces) |->
                        MkRange(pieces[i][1], pieces[i][2])]]
    ELSE [raised |-> "ValueError", value |-> <<>>]

\* Range.__sub__: the returned tuple, or the exception raised
Range_sub(self, other) ==
    LET lower_bound == Bound(other.lower.value, ~other.lower.inclusive)
        upper_bound == Bound(other.upper.value, ~other.upper.inclusive)
    IN  IF bigger_or_eq(self.lower, upper_bound)
           \/ smaller_or_eq(self.upper, lower_bound)
        THEN [raised |-> "none", value |-> <<self>>]
        ELSE IF smaller_or_eq(self.lower, lower_bound)
                /\ bigger_or_eq(self.upper, upper_bound)
        THEN Range_tuple(<< <<self.lower, lower_bound>>,
                            <<upper_bound, self.upper>> >>)
        ELSE IF smaller_or_eq(self.lower, lower_bound)
                /\ smaller_or_eq(self.upper, other.upper)
        THEN Range_tuple(<< <<self.lower, lower_bound>> >>)
        ELSE IF bigger_or_eq(self.lower, other.lower)
                /\ bigger_or_eq(self.upper, upper_bound)
        THEN Range_tuple(<< <<upper_bound, self.upper>> >>)
        ELSE IF bigger_or_eq(self.lower, other.lower)
                /\ smaller_or_eq(self.upper, other.upper)
        THEN [raised |-> "none", value |-> <<EmptyRange>>]
        ELSE [raised |-> "AssertionError", value |-> <<>>]

(***************************************************************************)
(* class NumberLine.  A line is modelled by its list self.ranges.          *)
(***************************************************************************)
Ok(value) == [raised |-> "none", value |-> value]
Raise(exception) == [raised |-> exception, value |-> <<>>]

\* list.pop(i), 1-based
Pop(list, i) == SubSeq(list, 1, i - 1) \o SubSeq(list, i + 1, Len(list))

\* While simplify() runs, an element of self.ranges is a Range or the
\* 1-tuple (Range,) that Range.__add__ returned and simplify() stored.
RangeItem(r) == [tuple |-> FALSE, range |-> r]
TupleItem(r) == [tuple |-> TRUE, range |-> r]

\* range1 == EmptyRange: a tuple is equal to no Range
item_eq_EmptyRange(item) == ~item.tuple /\ Range_eq(item.range, EmptyRange)

\* range1 + range2 on two elements: Range + Range is Range.__add__; tuple +
\* tuple concatenates to a 2-tuple; a Range and a tuple raise TypeError
item_add(item1, item2) ==
    IF ~item1.tuple /\ ~item2.tuple THEN Range_add(item1.range, item2.range)
    ELSE IF item1.tuple /\ item2.tuple THEN Ok(<<item1.range, item2.range>>)
    ELSE Raise("TypeError")

RECURSIVE simplify_outer(_, _), simplify_inner(_, _, _)
\* one pass of "for i, range1 in enumerate(self.ranges[:-1])", from index i
simplify_outer(items, i) ==
    IF i > Len(items) - 1 THEN [kind |-> "done", items |-> items]
    ELSE IF item_eq_EmptyRange(items[i])
    THEN [kind |-> "changed", items |-> Pop(items, i)]
    ELSE simplify_inner(items, i, i + 1)

\* "for j, range2 in enumerate(self.ranges[i + 1 :], i + 1)", from index j
simplify_inner(items, i, j) ==
    IF j > Len(items) THEN simplify_outer(items, i + 1)
    ELSE LET new == item_add(items[i], items[j])
         IN  IF new.raised # "none"
             THEN [kind |-> new.raised, items |-> items]
             ELSE IF Len(new.value) = 1
             THEN [kind |-> "changed",
                   items |-> Pop([items EXCEPT ![i] = TupleItem(new.value[1])], j)]
             ELSE simplify_inner(items, i, j + 1)

\* list.sort(key=lambda x: x.lower.value) is stable: an insertion sort
sort_insert(sorted, r) ==
    LET k == Cardinality({i \in 1..Len(sorted) :
                            sorted[i].lower.value <= r.lower.value})
    IN  SubSeq(sorted, 1, k) \o <<r>> \o SubSeq(sorted, k + 1, Len(sorted))

RECURSIVE list_sort(_)
list_sort(list) ==
    IF list = <<>> THEN <<>>
    ELSE sort_insert(list_sort(SubSeq(list, 1, Len(list) - 1)), list[Len(list)])

\* the sort that ends simplify(): the key of a tuple raises AttributeError
simplify_sort(items) ==
    IF \E i \in 1..Len(items) : items[i].tuple THEN Raise("AttributeError")
    ELSE Ok(list_sort([i \in 1..Len(items) |-> items[i].range]))

RECURSIVE simplify_while(_)
\* "while busy": scan again after every change
simplify_while(items) ==
    LET pass == simplify_outer(items, 1)
    IN  IF pass.kind = "done" THEN simplify_sort(pass.items)
        ELSE IF pass.kind = "changed" THEN simplify_while(pass.items)
        ELSE Raise(pass.kind)

\* NumberLine.simplify: the list it leaves, or the exception it raises
NumberLine_simplify(list) ==
    IF Len(list) <= 1 THEN Ok(list)
    ELSE simplify_while([i \in 1..Len(list) |-> RangeItem(list[i])])

\* NumberLine.__init__ on a list of Ranges
NumberLine_init(list, simplify) ==
    IF simplify THEN NumberLine_simplify(list) ELSE Ok(list)

NumberLine_contains(self, value) ==
    \E i \in 1..Len(self) : Range_contains(self[i], value)

NumberLine_add(self, other) == NumberLine_init(self \o other, TRUE)

RECURSIVE subtract_range(_, _)
\* subtract_range of NumberLine.__sub__
subtract_range(list, range_) ==
    IF list = <<>> THEN Ok(<<>>)
    ELSE LET new == Range_sub(Head(list), range_)
             rest == subtract_range(Tail(list), range_)
         IN  IF new.raised # "none" THEN Raise(new.raised)
             ELSE IF rest.raised # "none" THEN Raise(rest.raised)
             ELSE Ok(new.value \o rest.value)

RECURSIVE subtract_ranges(_, _)
\* "for range_ in other.ranges: new_ranges = subtract_range(new_ranges, range_)"
subtract_ranges(new_ranges, others) ==
    IF others = <<>> THEN Ok(new_ranges)
    ELSE LET step == subtract_range(new_ranges, Head(others))
         IN  IF step.raised # "none" THEN Raise(step.raised)
             ELSE subtract_ranges(step.value, Tail(others))

NumberLine_sub(self, other) ==
    LET new_ranges == subtract_ranges(self, other)
    IN  IF new_ranges.raised # "none" THEN Raise(new_ranges.raised)
        ELSE NumberLine_init(new_ranges.value, FALSE)

NumberLine_full == NumberLine_init(<<FullRange>>, TRUE)

\* NumberLine.empty() is NumberLine(), whose default argument is FullRange
NumberLine_empty == NumberLine_init(<<FullRange>>, TRUE)

NumberLine_invert(self) == NumberLine_sub(NumberLine_full.value, self)

\* NumberLine.__bool__: simplify() in place, then bool(self.ranges)
NumberLine_bool(self) ==
    LET simplified == NumberLine_simplify(self)
    IN  IF simplified.raised # "none" THEN Raise(simplified.raised)
        ELSE [raised |-> "none", value |-> simplified.value,
              truth |-> simplified.value # <<>>]

NumberLine_include(start, end) ==
    IF bigger_or_eq(start, end) THEN Raise("ValueError")
    ELSE IF ~Range_check(start, end) THEN Raise("ValueError")
    ELSE NumberLine_init(<<MkRange(start, end)>>, TRUE)

NumberLine_exclude(start, end) ==
    IF bigger_or_eq(start, end) THEN Raise("ValueError")
    ELSE IF Bound_eq(start, MinusInfinity) /\ Bound_eq(end, Infinity)
    THEN NumberLine_empty
    ELSE IF ~Range_check(MinusInfinity, start) \/ ~Range_check(end, Infinity)
    THEN Raise("ValueError")
    ELSE NumberLine_init(<<MkRange(MinusInfinity, start),
                           MkRange(end, Infinity)>>, TRUE)

(***************************************************************************)
(* The objects the scripts work on                                         *)
(***************************************************************************)
Bounds == {Bound(v, i) : v \in Values, i \in BOOLEAN}

\* every Range the checked constructor accepts, and the EmptyRange sentinel
CheckedRanges ==
    {MkRange(l, u) : <<l, u>> \in {p \in Bounds \X Bounds : Range_check(p[1], p[2])}}
Ranges == CheckedRanges \cup {EmptyRange}

(***************************************************************************)
(* Script 1: build two Bounds and compare them                             *)
(***************************************************************************)
BoundInit ==
    /\ pc = "start"
    /\ args \in [va : Values, ia : BOOLEAN, vb : Values, ib : BOOLEAN]
    /\ a = None /\ b = None /\ cmp = None
    /\ range1 = None /\ range2 = None /\ new_range = None
    /\ ranges = None /\ raised = "none"
    /\ x = None /\ y = None /\ n = None /\ hist = None /\ truth = None

NewBounds ==
    /\ pc = "start"
    /\ a' = Bound(args.va, args.ia)
    /\ b' = Bound(args.vb, args.ib)
    /\ pc' = "bounds"
    /\ UNCHANGED <<args, cmp, range1, range2, new_range, ranges, x, y, n, hist, truth, raised>>

CompareBounds ==
    /\ pc = "bounds"
    /\ cmp' = [lt |-> Bound_lt(a, b), gt |-> Bound_gt(a, b),
               le |-> Bound_le(a, b), ge |-> Bound_ge(a, b),
               eq |-> Bound_eq(a, b), nc |-> not_comparable(a, b)]
    /\ pc' = "compared"
    /\ UNCHANGED <<args, a, b, range1, range2, new_range, ranges, x, y, n, hist, truth, raised>>

BoundNext == NewBounds \/ CompareBounds

BoundSpec == BoundInit /\ [][BoundNext]_vars

(***************************************************************************)
(* Script 2: range1 + range2 and range1 - range2                           *)
(***************************************************************************)
RangeInit ==
    /\ pc = "start"
    /\ range1 \in Ranges
    /\ range2 \in Ranges
    /\ new_range = <<>>
    /\ raised = "none"
    /\ args = None /\ a = None /\ b = None /\ cmp = None /\ ranges = None
    /\ x = None /\ y = None /\ n = None /\ hist = None /\ truth = None

AddRanges ==
    /\ pc = "start"
    /\ new_range' = Range_add(range1, range2).value
    /\ raised' = Range_add(range1, range2).raised
    /\ pc' = "add"
    /\ UNCHANGED <<args, a, b, cmp, range1, range2, ranges, x, y, n, hist, truth>>

SubRanges ==
    /\ pc = "start"
    /\ new_range' = Range_sub(range1, range2).value
    /\ raised' = Range_sub(range1, range2).raised
    /\ pc' = "sub"
    /\ UNCHANGED <<args, a, b, cmp, range1, range2, ranges, x, y, n, hist, truth>>

RangeNext == AddRanges \/ SubRanges

RangeSpec == RangeInit /\ [][RangeNext]_vars

(***************************************************************************)
(* Script 3: the named constructors                                        *)
(***************************************************************************)
ConstructInit ==
    /\ pc = "start"
    /\ args \in [start : Bounds, end : Bounds]
    /\ x = <<>> /\ y = <<>>
    /\ raised = "none"
    /\ a = None /\ b = None /\ cmp = None
    /\ range1 = None /\ range2 = None /\ new_range = None
    /\ ranges = None /\ n = None /\ hist = None /\ truth = None

\* x = NumberLine.include(start, end)
Include ==
    /\ pc = "start"
    /\ LET new == NumberLine_include(args.start, args.end)
       IN  x' = new.value /\ raised' = new.raised
    /\ pc' = "include"
    /\ UNCHANGED <<args, a, b, cmp, range1, range2, new_range, ranges, y, n, hist, truth>>

\* y = NumberLine.exclude(start, end), alone or after x was built
Exclude ==
    /\ pc \in {"start", "include"}
    /\ raised = "none"
    /\ LET new == NumberLine_exclude(args.start, args.end)
       IN  y' = new.value /\ raised' = new.raised
    /\ pc' = IF pc = "include" THEN "include_exclude" ELSE "exclude"
    /\ UNCHANGED <<args, a, b, cmp, range1, range2, new_range, ranges, x, n, hist, truth>>

\* x = NumberLine.empty()
Empty ==
    /\ pc = "start"
    /\ x' = NumberLine_empty.value /\ raised' = NumberLine_empty.raised
    /\ pc' = "empty"
    /\ UNCHANGED <<args, a, b, cmp, range1, range2, new_range, ranges, y, n, hist, truth>>

\* x = NumberLine.full()
Full ==
    /\ pc = "start"
    /\ x' = NumberLine_full.value /\ raised' = NumberLine_full.raised
    /\ pc' = "full"
    /\ UNCHANGED <<args, a, b, cmp, range1, range2, new_range, ranges, y, n, hist, truth>>

ConstructNext == Include \/ Exclude \/ Empty \/ Full

ConstructSpec == ConstructInit /\ [][ConstructNext]_vars

(***************************************************************************)
(* Script 4: simplify() on a line holding an arbitrary list of Ranges      *)
(***************************************************************************)
MaxLen == 3

RangeLists == UNION {[1..k -> Ranges] : k \in 0..MaxLen}

SimplifyInit ==
    /\ pc = "start"
    /\ ranges \in RangeLists
    /\ raised = "none"
    /\ args = None /\ a = None /\ b = None /\ cmp = None
    /\ range1 = None /\ range2 = None /\ new_range = None
    /\ x = None /\ y = None /\ n = None /\ hist = None /\ truth = None

\* self.simplify(); an exception ends the script
Simplify ==
    /\ pc = "start"
    /\ LET new == NumberLine_simplify(ranges)
       IN  /\ raised' = new.raised
           /\ ranges' = IF new.raised = "none" THEN new.value ELSE ranges
           /\ pc' = IF new.raised = "none" THEN "simplified" ELSE "raised"
    /\ UNCHANGED <<args, a, b, cmp, range1, range2, new_range, x, y, n, hist, truth>>

SimplifyNext == Simplify

SimplifySpec == SimplifyInit /\ [][SimplifyNext]_vars

(***************************************************************************)
(* Script 5: x = x + y, x = x - y and x = ~x on lines built by include     *)
(***************************************************************************)
MaxSteps == 3

IncludeLines ==
    {NumberLine_include(p[1], p[2]).value :
        p \in {q \in Bounds \X Bounds :
                 NumberLine_include(q[1], q[2]).raised = "none"}}

AlgebraInit ==
    /\ pc = "start"
    /\ x \in IncludeLines
    /\ y \in IncludeLines
    /\ n = <<>>
    /\ hist = <<>>
    /\ truth = FALSE
    /\ raised = "none"
    /\ args = None /\ a = None /\ b = None /\ cmp = None
    /\ range1 = None /\ range2 = None /\ new_range = None /\ ranges = None

\* one statement x = <new>; n keeps the line x was before it; an exception
\* leaves x as it was and ends the script
Assign(op, new, before) ==
    /\ pc' = op
    /\ raised' = new.raised
    /\ IF new.raised = "none"
       THEN x' = new.value /\ n' = before /\ hist' = Append(hist, op)
       ELSE UNCHANGED <<x, n, hist>>
    /\ UNCHANGED <<args, a, b, cmp, range1, range2, new_range, ranges, y, truth>>

Add ==
    /\ raised = "none" /\ Len(hist) < MaxSteps
    /\ Assign("add", NumberLine_add(x, y), x)

Sub ==
    /\ raised = "none" /\ Len(hist) < MaxSteps
    /\ Assign("sub", NumberLine_sub(x, y), x)

\* x = ~x; over a run of complements n stays the line the run started from
Invert ==
    /\ raised = "none" /\ Len(hist) < MaxSteps
    /\ Assign("invert", NumberLine_invert(x),
              IF pc = "invert" THEN n ELSE x)

\* bool(x): simplify() rewrites x.ranges in place, then bool(self.ranges)
Bool ==
    /\ raised = "none" /\ pc # "bool" /\ Len(hist) <= MaxSteps
    /\ LET new == NumberLine_bool(x)
       IN  /\ raised' = new.raised
           /\ IF new.raised = "none"
              THEN x' = new.value /\ truth' = new.truth
                   /\ hist' = Append(hist, "bool")
              ELSE UNCHANGED <<x, truth, hist>>
    /\ pc' = "bool"
    /\ UNCHANGED <<args, a, b, cmp, range1, range2, new_range, ranges, y, n>>

AlgebraNext == Add \/ Sub \/ Invert \/ Bool

AlgebraSpec == AlgebraInit /\ [][AlgebraNext]_vars

(***************************************************************************)
(* Properties of Bound and Range                                           *)
(***************************************************************************)
\* some piece of a returned tuple holds the value
InTuple(pieces, v) == \E i \in 1..Len(pieces) : Range_contains(pieces[i], v)

\* The gap between two ranges as the documentation states it: apart by
\* value, or facing each other at one value with both facing bounds exclusive
GapDisjoint(r1, r2) ==
    \/ r1.lower.value > r2.upper.value
    \/ r1.upper.value < r2.lower.value
    \/ r1.lower.value = r2.upper.value
         /\ ~r1.lower.inclusive /\ ~r2.upper.inclusive
    \/ r1.upper.value = r2.lower.value
         /\ ~r1.upper.inclusive /\ ~r2.lower.inclusive

\* C1: for ranges with lower <= upper, a finite value is in a piece of
\* range1 - range2 exactly when it is in range1 and not in range2.
C1_SubtractionSetExact ==
    (pc = "sub" /\ range1 \in CheckedRanges /\ range2 \in CheckedRanges)
        => /\ raised = "none"
           /\ \A v \in FiniteSamples :
                InTuple(new_range, v)
                    <=> (Range_contains(range1, v) /\ ~Range_contains(range2, v))

\* C2: range1 + range2 returns both operands unchanged whenever the two are
\* gap-disjoint, whichever operand comes first.
C2_UnionKeepsGapDisjointApart ==
    (pc = "add" /\ GapDisjoint(range1, range2))
        => raised = "none" /\ new_range = <<range1, range2>>

\* C3: when range1 and range2 are not gap-disjoint, range1 + range2 is one
\* Range, and a value (finite or infinite, the four boundary values among
\* them) is in it exactly when it is in range1 or in range2.
C3_UnionClosure ==
    (pc = "add" /\ ~GapDisjoint(range1, range2))
        => /\ raised = "none"
           /\ Len(new_range) = 1
           /\ \A v \in Samples :
                Range_contains(new_range[1], v)
                    <=> (Range_contains(range1, v) \/ Range_contains(range2, v))

\* a union of two ranges that touch at one finite value, one facing bound
\* inclusive and the other exclusive, has been computed and is one Range
C3_Witness ==
    /\ pc = "add"
    /\ ~GapDisjoint(range1, range2)
    /\ range1.upper.value = range2.lower.value
    /\ range1.upper.value \in FiniteValues
    /\ range1.lower.value < range1.upper.value
    /\ range2.lower.value < range2.upper.value
    /\ range1.upper.inclusive # range2.lower.inclusive
    /\ Len(new_range) = 1

\* C10: two Bounds of equal value and differing inclusivity are in no order
\* relation and not equal, and not_comparable says so; for any other two
\* Bounds exactly one of <, ==, > holds and not_comparable is false.
C10_BoundOrderingPartial ==
    pc = "compared" =>
        IF a.value = b.value /\ a.inclusive # b.inclusive
        THEN /\ ~cmp.lt /\ ~cmp.gt /\ ~cmp.le /\ ~cmp.ge /\ ~cmp.eq
             /\ cmp.nc
        ELSE /\ Cardinality({r \in {"lt", "eq", "gt"} : cmp[r]}) = 1
             /\ ~cmp.nc

\* two Bounds at one finite value, one inclusive and one exclusive, compared
C10_Witness ==
    /\ pc = "compared"
    /\ a.value = b.value
    /\ a.inclusive # b.inclusive
    /\ cmp.nc

(***************************************************************************)
(* Properties of NumberLine                                                *)
(***************************************************************************)
\* both lines hold one Range, and the two face each other at one value b
\* with at least one of the two bounds at b inclusive
TouchInclusive(line1, line2) ==
    /\ Len(line1) = 1 /\ Len(line2) = 1
    /\ line1[1].lower.value < line1[1].upper.value
    /\ line1[1].upper.value = line2[1].lower.value
    /\ line2[1].lower.value < line2[1].upper.value
    /\ line1[1].upper.inclusive \/ line2[1].lower.inclusive

\* C4: for x = include(a, b) and y = include(b, c) with a < b < c and one of
\* the bounds at b inclusive, x + y raises nothing and is the one Range from
\* a to c.
C4_UnionMergesTouching ==
    /\ (pc = "add" /\ raised # "none" /\ hist = <<>>) => ~TouchInclusive(x, y)
    /\ (pc = "add" /\ raised = "none" /\ hist = <<"add">> /\ TouchInclusive(n, y))
            => x = <<MkRange(n[1].lower, y[1].upper)>>

\* C5: when simplify() returns, self.ranges is sorted by lower.value, holds
\* no EmptyRange, and holds no two members whose union is a single Range.
C5_SimplifyCanonical ==
    pc = "simplified" =>
        /\ \A i \in 1..Len(ranges) : \A j \in 1..Len(ranges) :
              i < j => ranges[i].lower.value <= ranges[j].lower.value
        /\ \A i \in 1..Len(ranges) : ~Range_eq(ranges[i], EmptyRange)
        /\ \A i \in 1..Len(ranges) : \A j \in 1..Len(ranges) :
              i # j => Len(Range_add(ranges[i], ranges[j]).value) # 1

LineFinite(line) ==
    \A i \in 1..Len(line) :
        line[i].lower.value \in FiniteValues /\ line[i].upper.value \in FiniteValues

PairwiseGapDisjoint(line) ==
    \A i \in 1..Len(line) : \A j \in 1..Len(line) :
        i < j => GapDisjoint(line[i], line[j])

OnlyAdds(ops) == \A i \in 1..Len(ops) : ops[i] = "add"

\* x is ~(~n), and n was built from the include lines by unions alone
TwiceInverted ==
    /\ pc = "invert" /\ raised = "none"
    /\ Len(hist) >= 2
    /\ hist[Len(hist)] = "invert" /\ hist[Len(hist) - 1] = "invert"
    /\ OnlyAdds(SubSeq(hist, 1, Len(hist) - 2))

\* C6: a line n built from include with finite bounds, or a union of such
\* lines whose ranges are pairwise gap-disjoint, gets built, and ~(~n) holds
\* a finite value exactly when n holds it.
C6_ComplementInvolution ==
    /\ (/\ pc = "add" /\ raised # "none" /\ OnlyAdds(hist)
        /\ LineFinite(x) /\ LineFinite(y)) => ~PairwiseGapDisjoint(x \o y)
    /\ (TwiceInverted /\ LineFinite(n) /\ PairwiseGapDisjoint(n))
            => \A v \in FiniteSamples :
                  NumberLine_contains(x, v) <=> NumberLine_contains(n, v)

\* C7: for lower < upper, a finite value is in exclude(lower, upper) exactly
\* when it is not in include(lower, upper).
C7_ExcludeComplementsInclude ==
    (pc = "include_exclude" /\ Bound_lt(args.start, args.end))
        => /\ raised = "none"
           /\ \A v \in FiniteSamples :
                NumberLine_contains(y, v) <=> ~NumberLine_contains(x, v)

\* C8: NumberLine.empty() holds no value, and so does
\* exclude(MinusInfinity, Infinity).
C8_EmptyHoldsNothing ==
    /\ pc = "empty"
          => raised = "none" /\ \A v \in Samples : ~NumberLine_contains(x, v)
    /\ (/\ pc \in {"exclude", "include_exclude"}
        /\ args.start = MinusInfinity /\ args.end = Infinity)
          => raised = "none" /\ \A v \in Samples : ~NumberLine_contains(y, v)

\* C9: include(start, end) raises ValueError when start > end and returns a
\* line when start <= end, equal value with equal inclusivity counting as <=.
C9_IncludeRaisesOnlyWhenBigger ==
    pc = "include" =>
        /\ Bound_gt(args.start, args.end) => raised = "ValueError"
        /\ Bound_le(args.start, args.end) => raised = "none"

(***************************************************************************)
(* Exhaustiveness of the cases of Range.__sub__                            *)
(***************************************************************************)
\* C11: for every two Ranges that pass the constructor's check or are the
\* EmptyRange or FullRange sentinel, range1 - range2 matches one of the five
\* cases and returns one or two pieces: the branch after the fifth case is
\* not reached and no piece fails the check of Range().
C11_SubCasesExhaustive ==
    pc = "sub" =>
        /\ raised # "AssertionError"
        /\ raised # "ValueError"
        /\ raised = "none"
        /\ Len(new_range) \in {1, 2}

\* a subtraction of two checked finite ranges with the same bounds, where
\* the first four cases fail on incomparable bounds and the fifth returns
C11_Witness ==
    /\ pc = "sub"
    /\ range1 \in CheckedRanges /\ range2 = range1
    /\ range1.lower.value \in FiniteValues /\ range1.upper.value \in FiniteValues
    /\ range1.lower.value < range1.upper.value
    /\ raised = "none"
    /\ new_range = <<EmptyRange>>

(***************************************************************************)
(* Truthiness of a NumberLine                                              *)
(***************************************************************************)
\* C12: for a line produced from the constructors by any sequence of
\* unions, differences and complements, bool(line) returns, and returns
\* True exactly when some finite value is a member of the line.
C12_TruthinessReflectsEmptiness ==
    pc = "bool" =>
        /\ raised = "none"
        /\ truth <=> (\E v \in FiniteSamples : NumberLine_contains(x, v))

====
